---- MODULE Spec2Model ----
(***************************************************************************)
(* Model of builder/worker.py, the Grape.ai build worker: project          *)
(* classification, the npm build procedure, artifact location and staging  *)
(* into the deploy directory.                                              *)
(*                                                                         *)
(* The file system is a function from paths (sequences of names) to node   *)
(* bodies. A message is a sequence of string pieces: an f-string is the    *)
(* concatenation of its pieces.                                            *)
(***************************************************************************)
EXTENDS Naturals, Integers, Sequences, FiniteSets, TLC

VARIABLES
    pc,             \* position of main()
    fs,             \* the file system
    nargs,          \* len(sys.argv) - 1
    deploy_path,    \* os.path.abspath(sys.argv[2])
    project_type,   \* result of detect_project_type, "unset" before
    build_success,  \* main's build_success
    build_message,  \* main's build_message
    build_output,   \* result of find_build_output, None before
    exit_status,    \* process exit status, -1 while running
    cmds,           \* history: the external commands run so far
    fs0,            \* history: the file system when the run started
    fsLocate,       \* history: the file system when the artifact was located
    written,        \* history: the paths written by the staging steps
    branch          \* history: the staging branch taken

vars == <<pc, fs, nargs, deploy_path, project_type, build_success,
          build_message, build_output, exit_status, cmds, fs0, fsLocate,
          written, branch>>

----------------------------------------------------------------------------
(* Bounds of the model *)

\* largest number of keys in the manifest's dependencies mapping
MaxDeps == 1

----------------------------------------------------------------------------
(* File-system nodes *)

Dir == [tag |-> "dir", deps |-> {}, scripts |-> {}, msg |-> <<>>]

File(t) == [tag |-> t, deps |-> {}, scripts |-> {}, msg |-> <<>>]

\* a package.json holding a JSON object with these dependencies and scripts keys
Manifest(d, s) == [tag |-> "json", deps |-> d, scripts |-> s, msg |-> <<>>]

\* a package.json that json.load rejects
Garbage == File("garbage")

\* the html_content of create_fallback_page: fixed markup around the message
html_content(message) ==
    [tag |-> "fallback", deps |-> {}, scripts |-> {}, msg |-> message]

None == <<>>

project_path == <<"proj">>

IsPrefix(p, q) == Len(p) <= Len(q) /\ SubSeq(q, 1, Len(p)) = p

Suffix(p, q) == SubSeq(q, Len(p) + 1, Len(q))

join(p, q) == p \o q

exists(f, p) == p \in DOMAIN f

isdir(f, p) == exists(f, p) /\ f[p].tag = "dir"

isfile(f, p) == exists(f, p) /\ f[p].tag # "dir"

listdir(f, p) ==
    {q[Len(p) + 1] : q \in {r \in DOMAIN f : Len(r) = Len(p) + 1 /\ IsPrefix(p, r)}}

\* the nodes at and below p
Under(f, p) == {q \in DOMAIN f : IsPrefix(p, q)}

\* the contents of directory p, as a function from relative paths
Contents(f, p) ==
    [s \in {Suffix(p, q) : q \in Under(f, p) \ {p}} |-> f[join(p, s)]]

FsOf(pairs) ==
    [p \in {e[1] : e \in pairs} |-> (CHOOSE e \in pairs : e[1] = p)[2]]

Pairs(f) == {<<p, f[p]>> : p \in DOMAIN f}

Restrict(f, S) == [p \in S |-> f[p]]

\* shutil.rmtree(p): raises on a path that is not a directory
rmtree(f, p) ==
    IF isdir(f, p)
    THEN [ok |-> TRUE, fs |-> Restrict(f, DOMAIN f \ Under(f, p))]
    ELSE [ok |-> FALSE, fs |-> f]

\* shutil.copytree(src, dst) with dst absent and at most one level inside src:
\* raises when src cannot be listed
copytree(f, src, dst) ==
    IF ~isdir(f, src) \/ exists(f, dst)
    THEN [ok |-> FALSE, fs |-> f, new |-> {}]
    ELSE LET new == {join(dst, Suffix(src, q)) : q \in Under(f, src)}
         IN  [ok  |-> TRUE,
              fs  |-> [r \in DOMAIN f \cup new |->
                          IF r \in new THEN f[join(src, Suffix(dst, r))] ELSE f[r]],
              new |-> new]

\* the proper, non-empty prefixes of p
Parents(p) == {SubSeq(p, 1, n) : n \in 1..(Len(p) - 1)}

\* os.makedirs(p, exist_ok=True)
makedirs(f, p) ==
    IF \E q \in Parents(p) \cup {p} : isfile(f, q)
    THEN [ok |-> FALSE, fs |-> f, new |-> {}]
    ELSE LET new == {q \in Parents(p) \cup {p} : ~exists(f, q)}
         IN  [ok  |-> TRUE,
              fs  |-> [r \in DOMAIN f \cup new |-> IF r \in new THEN Dir ELSE f[r]],
              new |-> new]

\* open(p, 'w') followed by write(body): raises on a directory
write(f, p, body) ==
    IF isdir(f, p)
    THEN [ok |-> FALSE, fs |-> f, new |-> {}]
    ELSE [ok  |-> TRUE,
          fs  |-> [r \in DOMAIN f \cup {p} |-> IF r = p THEN body ELSE f[r]],
          new |-> {p}]

----------------------------------------------------------------------------
(* detect_project_type *)

\* json.load of the manifest succeeds and yields an object
Parses(f, p) == exists(f, p) /\ f[p].tag = "json"

detect_project_type(f, project) ==
    LET package_json == join(project, <<"package.json">>)
        index_html   == join(project, <<"index.html">>)
        scripts      == f[package_json].scripts
        deps         == f[package_json].deps
    IN  IF Parses(f, package_json)
        THEN IF "next" \in deps THEN "nextjs"
             ELSE IF "vite" \in deps \/ "build" \in scripts THEN "vite"
             ELSE IF "react-scripts" \in deps THEN "cra"
             ELSE IF "build" \in scripts THEN "node"
             ELSE "static"
        ELSE IF exists(f, index_html) THEN "static"
        ELSE "unknown"

\* main's test of the project type before build_node_project
Buildable(t) == t \in {"nextjs", "vite", "cra", "node"}

----------------------------------------------------------------------------
(* run_command and build_node_project *)

TimeoutStderr == "Build timed out after 10 minutes"

\* what run_command can return: (returncode == 0, stderr)
CommandResults ==
    { [ok |-> TRUE,  stderr |-> ""],
      [ok |-> FALSE, stderr |-> "npm ERR!"],
      [ok |-> FALSE, stderr |-> TimeoutStderr] }

\* build_node_project after `which npm`: done with a result, or continue
after_which(r) ==
    IF ~r.ok
    THEN [done |-> TRUE,  success |-> FALSE, message |-> <<"npm not available">>]
    ELSE [done |-> FALSE, success |-> TRUE,  message |-> <<>>]

\* mutation of after_install: a failed install does not stop the procedure
after_install_continuing(r) ==
    [done |-> FALSE, success |-> TRUE, message |-> <<>>]

\* build_node_project after `npm install`
after_install(r) ==
    IF ~r.ok
    THEN [done |-> TRUE,  success |-> FALSE,
          message |-> <<"npm install failed: ", r.stderr>>]
    ELSE [done |-> FALSE, success |-> TRUE,  message |-> <<>>]

\* mutation of after_build: a failed build script is a failed build
after_build_hard_failure(r) ==
    IF ~r.ok
    THEN [done |-> TRUE, success |-> FALSE,
          message |-> <<"npm run build failed: ", r.stderr>>]
    ELSE [done |-> TRUE, success |-> TRUE,
          message |-> <<"Build completed successfully">>]

\* build_node_project after `npm run build`
after_build(r) ==
    IF ~r.ok
    THEN [done |-> TRUE, success |-> TRUE,
          message |-> <<"No build script found, serving source files">>]
    ELSE [done |-> TRUE, success |-> TRUE,
          message |-> <<"Build completed successfully">>]

----------------------------------------------------------------------------
(* find_build_output *)

candidates ==
    << <<"dist">>, <<"build">>, <<"out">>, <<".next", "standalone">>,
       <<".next", "out">>, <<"public">>, <<"_site">> >>

\* mutation of candidate_matches: the directory listing is not looked at
candidate_matches_unlisted(f, full_path) ==
    exists(f, full_path) /\ isdir(f, full_path)

\* one iteration of the loop: does this candidate return
candidate_matches(f, full_path) ==
    exists(f, full_path) /\ isdir(f, full_path) /\ listdir(f, full_path) # {}

RECURSIVE find_from(_, _, _)
find_from(f, project, i) ==
    IF i > Len(candidates) THEN None
    ELSE IF candidate_matches(f, join(project, candidates[i]))
         THEN join(project, candidates[i])
         ELSE find_from(f, project, i + 1)

find_build_output(f, project) == find_from(f, project, 1)

----------------------------------------------------------------------------
(* copy_to_deploy, create_fallback_page and the staging decision of main *)

copy_to_deploy(f, source, deploy) ==
    LET r == IF exists(f, deploy) THEN rmtree(f, deploy) ELSE [ok |-> TRUE, fs |-> f]
        c == copytree(r.fs, source, deploy)
    IN  IF ~r.ok THEN [ok |-> FALSE, fs |-> f, new |-> {}]
        ELSE c

create_fallback_page(f, deploy, message) ==
    LET m == makedirs(f, deploy)
        w == write(m.fs, join(deploy, <<"index.html">>), html_content(message))
    IN  IF ~m.ok THEN m
        ELSE [ok |-> w.ok, fs |-> w.fs, new |-> m.new \cup w.new]

\* the branch main takes at lines 199-209
staging_branch(f, output) ==
    IF output # None THEN "artifact"
    ELSE IF exists(f, join(project_path, <<"index.html">>)) THEN "root"
    ELSE "fallback"

\* mutation of fallback_message: the two messages swapped
fallback_message_swapped(success, message) ==
    IF ~success THEN <<"Project built but no output found">>
    ELSE <<"Build failed: ">> \o message

\* the message of the fallback page of lines 206-209
fallback_message(success, message) ==
    IF success THEN <<"Project built but no output found">>
    ELSE <<"Build failed: ">> \o message

\* mutation of stage: a failed build goes straight to the fallback page
stage_gated_on_build(f, output, deploy, success, message) ==
    LET b == staging_branch(f, output)
    IN  IF ~success
        THEN create_fallback_page(f, deploy, fallback_message(success, message))
        ELSE IF b = "artifact" THEN copy_to_deploy(f, output, deploy)
        ELSE IF b = "root" THEN copy_to_deploy(f, project_path, deploy)
        ELSE create_fallback_page(f, deploy, fallback_message(success, message))

\* lines 199-209
stage(f, output, deploy, success, message) ==
    LET b == staging_branch(f, output)
    IN  IF b = "artifact" THEN copy_to_deploy(f, output, deploy)
        ELSE IF b = "root" THEN copy_to_deploy(f, project_path, deploy)
        ELSE create_fallback_page(f, deploy, fallback_message(success, message))

\* mutation of path_missing: anything but a directory counts as missing
path_missing_unless_directory(f) == ~isdir(f, project_path)

\* line 181
path_missing(f) == ~exists(f, project_path)

\* line 213
index_missing(f, deploy) == ~exists(f, join(deploy, <<"index.html">>))

----------------------------------------------------------------------------
(* The initial file systems *)

DepNames == {"next", "vite", "react-scripts"}

ManifestBodies ==
    {Garbage} \cup
    {Manifest(d, s) : d \in {x \in SUBSET DepNames : Cardinality(x) <= MaxDeps},
                      s \in SUBSET {"build"}}

In(p, name) == join(p, <<name>>)

ManifestOpts == {{}} \cup {{<<In(project_path, "package.json"), b>>} : b \in ManifestBodies}

IndexOpts ==
    { {},
      {<<In(project_path, "index.html"), File("page")>>},
      {<<In(project_path, "index.html"), Dir>>} }

\* a build output directory holding an asset, with an index.html or without
Output(d, withIndex) ==
    {<<d, Dir>>, <<In(d, "app.js"), File("asset")>>} \cup
    (IF withIndex THEN {<<In(d, "index.html"), File("page")>>} ELSE {})

DistOpts ==
    LET dist == In(project_path, "dist")
    IN  { {},
          {<<dist, File("asset")>>},
          {<<dist, Dir>>},
          Output(dist, TRUE),
          Output(dist, FALSE),
          {<<dist, Dir>>, <<In(dist, "index.html"), Dir>>} }

PublicOpts == { {}, Output(In(project_path, "public"), FALSE) }

ProjectOpts ==
    { {}, {<<project_path, File("asset")>>} } \cup
    { {<<project_path, Dir>>} \cup m \cup i \cup d \cup p :
        m \in ManifestOpts, i \in IndexOpts, d \in DistOpts, p \in PublicOpts }

\* a deploy directory left by an earlier run
Stale(d) ==
    {<<d, Dir>>, <<In(d, "old.html"), File("stale")>>,
     <<In(d, "index.html"), File("stale")>>}

\* deploy_path and what it holds, for a project tree P
DeployOpts(P) ==
    LET out  == <<"deploy">>
        site == In(project_path, "site")
    IN  { <<out, x>> : x \in { {}, {<<out, Dir>>}, Stale(out), {<<out, File("stale")>>},
                                {<<out, Dir>>, <<In(out, "index.html"), Dir>>} } }
        \cup { <<project_path, {}>>, <<In(project_path, "dist"), {}>> }
        \cup { <<site, x>> :
                 x \in IF <<project_path, Dir>> \in P THEN { {}, Stale(site) } ELSE { {} } }

InitRest ==
    /\ project_type = "unset"
    /\ build_success = TRUE
    /\ build_message = <<>>
    /\ build_output = None
    /\ exit_status = -1
    /\ cmds = <<>>
    /\ fs0 = fs
    /\ fsLocate = fs
    /\ written = {}
    /\ branch = "none"

Init ==
    /\ pc = "start"
    /\ nargs \in 1..3
    /\ \E P \in ProjectOpts : \E D \in DeployOpts(P) :
          /\ deploy_path = D[1]
          /\ fs = FsOf(P \cup D[2])
    /\ InitRest

----------------------------------------------------------------------------
(* main *)

\* lines 171-183
Start ==
    /\ pc = "start"
    /\ IF nargs # 2 \/ path_missing(fs)
       THEN pc' = "exited" /\ exit_status' = 1
       ELSE pc' = "detect" /\ UNCHANGED exit_status
    /\ UNCHANGED <<fs, nargs, deploy_path, project_type, build_success,
                   build_message, build_output, cmds, fs0, fsLocate, written, branch>>

\* lines 186-193
Detect ==
    /\ pc = "detect"
    /\ project_type' = detect_project_type(fs, project_path)
    /\ build_success' = TRUE
    /\ build_message' = <<>>
    /\ pc' = IF Buildable(project_type') THEN "which" ELSE "locate"
    /\ UNCHANGED <<fs, nargs, deploy_path, build_output, exit_status, cmds, fs0,
                   fsLocate, written, branch>>

\* the history entry of one run_command call
Ran(c, r) == [cmd |-> c, ok |-> r.ok, stderr |-> r.stderr]

\* main's assignment of build_node_project's return value
Return(a, next) ==
    IF a.done
    THEN pc' = "locate" /\ build_success' = a.success /\ build_message' = a.message
    ELSE pc' = next /\ UNCHANGED <<build_success, build_message>>

\* lines 75-78
WhichNpm ==
    /\ pc = "which"
    /\ \E r \in CommandResults :
          /\ cmds' = Append(cmds, Ran("which npm", r))
          /\ Return(after_which(r), "install")
    /\ UNCHANGED <<fs, nargs, deploy_path, project_type, build_output, exit_status,
                   fs0, fsLocate, written, branch>>

\* what npm install leaves in the project when it succeeds
installed(f) ==
    FsOf(Pairs(f) \cup
         {<<In(project_path, "node_modules"), Dir>>,
          <<join(project_path, <<"node_modules", "dep.js">>), File("asset")>>})

\* lines 81-83
NpmInstall ==
    /\ pc = "install"
    /\ \E r \in CommandResults :
          /\ cmds' = Append(cmds, Ran("npm install", r))
          /\ fs' = IF r.ok THEN installed(fs) ELSE fs
          /\ Return(after_install(r), "build")
    /\ UNCHANGED <<nargs, deploy_path, project_type, build_output, exit_status,
                   fs0, fsLocate, written, branch>>

BuildEffects == {"nothing", "dist with index.html", "dist without index.html"}

\* what the project's build script leaves in the project
built(f, e) ==
    LET dist == In(project_path, "dist")
    IN  IF e = "nothing" THEN f
        ELSE FsOf(Pairs(Restrict(f, DOMAIN f \ Under(f, dist)))
                  \cup Output(dist, e = "dist with index.html"))

\* lines 86-92
NpmRunBuild ==
    /\ pc = "build"
    /\ \E r \in CommandResults : \E e \in BuildEffects :
          /\ cmds' = Append(cmds, Ran("npm run build", r))
          /\ fs' = built(fs, e)
          /\ Return(after_build(r), "build")
    /\ UNCHANGED <<nargs, deploy_path, project_type, build_output, exit_status,
                   fs0, fsLocate, written, branch>>

\* line 197
Locate ==
    /\ pc = "locate"
    /\ build_output' = find_build_output(fs, project_path)
    /\ fsLocate' = fs
    /\ pc' = "stage"
    /\ UNCHANGED <<fs, nargs, deploy_path, project_type, build_success,
                   build_message, exit_status, cmds, fs0, written, branch>>

\* lines 199-209; an exception of the file-system calls ends the process
Stage ==
    /\ pc = "stage"
    /\ LET s == stage(fs, build_output, deploy_path, build_success, build_message)
       IN  /\ fs' = s.fs
           /\ written' = s.new
           /\ branch' = staging_branch(fs, build_output)
           /\ IF s.ok
              THEN pc' = "ensure" /\ UNCHANGED exit_status
              ELSE pc' = "crashed" /\ exit_status' = 1
    /\ UNCHANGED <<nargs, deploy_path, project_type, build_success, build_message,
                   build_output, cmds, fs0, fsLocate>>

\* lines 212-216
EnsureIndex ==
    /\ pc = "ensure"
    /\ LET s == IF index_missing(fs, deploy_path)
                THEN create_fallback_page(fs, deploy_path, <<"Deployment completed">>)
                ELSE [ok |-> TRUE, fs |-> fs, new |-> {}]
       IN  /\ fs' = s.fs
           /\ written' = written \cup s.new
           /\ IF s.ok
              THEN pc' = "done" /\ exit_status' = 0
              ELSE pc' = "crashed" /\ exit_status' = 1
    /\ UNCHANGED <<nargs, deploy_path, project_type, build_success, build_message,
                   build_output, cmds, fs0, fsLocate, branch>>

Next ==
    \/ Start
    \/ Detect
    \/ WhichNpm
    \/ NpmInstall
    \/ NpmRunBuild
    \/ Locate
    \/ Stage
    \/ EnsureIndex

Spec == Init /\ [][Next]_vars

----------------------------------------------------------------------------
(* find_build_output alone, over every state of the seven candidates *)

Kinds == {"absent", "file", "empty", "full"}

\* candidate c of the project in state k, with the directories above it
CandidateTree(c, k) ==
    LET full == join(project_path, c)
    IN  IF k = "absent" THEN {}
        ELSE {<<q, Dir>> : q \in Parents(full)} \cup
             (IF k = "file" THEN {<<full, File("asset")>>}
              ELSE IF k = "empty" THEN {<<full, Dir>>}
              ELSE {<<full, Dir>>, <<In(full, "app.js"), File("asset")>>})

InitLocate ==
    /\ pc = "locate"
    /\ nargs = 2
    /\ deploy_path = <<"deploy">>
    /\ \E k \in [1..Len(candidates) -> Kinds] :
          fs = FsOf({<<project_path, Dir>>} \cup
                    UNION {CandidateTree(candidates[i], k[i]) : i \in 1..Len(candidates)})
    /\ InitRest

NextLocate == Locate

SpecLocate == InitLocate /\ [][NextLocate]_vars

----------------------------------------------------------------------------
(* Properties *)

Terminated == pc \in {"done", "exited", "crashed"}

index_path == In(deploy_path, "index.html")

\* the candidate order of the Artifact Locator, as the specification lists it
LocatorOrder ==
    << <<"dist">>, <<"build">>, <<"out">>, <<".next", "standalone">>,
       <<".next", "out">>, <<"public">>, <<"_site">> >>

\* candidate i exists in f, is a directory and has at least one entry
Matching(f, i) ==
    LET full == join(project_path, LocatorOrder[i])
    IN  /\ full \in DOMAIN f
        /\ f[full].tag = "dir"
        /\ \E q \in DOMAIN f : Len(q) = Len(full) + 1 /\ IsPrefix(full, q)

\* the first matching candidate of f, None when there is none
FirstMatch(f) ==
    LET I == {i \in 1..Len(LocatorOrder) : Matching(f, i)}
    IN  IF I = {} THEN None
        ELSE join(project_path, LocatorOrder[CHOOSE i \in I : \A j \in I : i <= j])

\* C1: a run that passes the argument and path checks and reaches its end
\* leaves a file index.html directly under deployTarget.
C1_IndexFileStaged ==
    pc = "done" => isfile(fs, index_path)

\* C2 as claimed: with two arguments the exit status is 1 exactly when
\* project_path does not exist, nothing further happens then, and every other
\* run exits with status 0.
C2_ExitOneOnlyForMissingPath ==
    (nargs = 2 /\ Terminated) =>
        /\ exit_status = 1 <=> ~exists(fs0, project_path)
        /\ exit_status # 1 => exit_status = 0
        /\ exit_status = 1 =>
              project_type = "unset" /\ cmds = <<>> /\ fs = fs0

\* C2 as amended: with two arguments the run stops at the path check, with
\* status 1, exactly when project_path does not exist, and then nothing further
\* has happened (no classification, no command, the file system unchanged);
\* every run that reaches the end of the pipeline exits with status 0, whatever
\* the build outcome; a run ends otherwise only when a file-system call of the
\* staging steps raises, and then with status 1.
C2_ExitStatus ==
    (nargs = 2 /\ Terminated) =>
        /\ pc = "exited" <=> ~exists(fs0, project_path)
        /\ pc = "exited" =>
              /\ exit_status = 1
              /\ project_type = "unset" /\ cmds = <<>> /\ fs = fs0
              /\ build_output = None /\ branch = "none"
        /\ pc = "done" => exit_status = 0
        /\ pc = "crashed" => exit_status = 1 /\ branch # "none"

\* a run whose build failed (npm unavailable or install failed) ends with status 0
C2_Witness ==
    nargs = 2 /\ pc = "done" /\ exit_status = 0 /\ ~build_success

\* C3: a parseable manifest whose scripts contain build and whose dependencies
\* contain none of next, vite, react-scripts classifies as node.
C3_BuildScriptOnlyIsNode ==
    LET package_json == In(project_path, "package.json")
    IN  ( /\ project_type # "unset"
          /\ package_json \in DOMAIN fs0
          /\ fs0[package_json].tag = "json"
          /\ "build" \in fs0[package_json].scripts
          /\ fs0[package_json].deps \cap {"next", "vite", "react-scripts"} = {} )
        => project_type = "node"

\* the project root is a directory without entries
EmptyProject(f) ==
    /\ project_path \in DOMAIN f
    /\ f[project_path].tag = "dir"
    /\ \A q \in DOMAIN f : IsPrefix(project_path, q) => q = project_path

\* C4 as claimed: for an empty project directory the staged index.html is the
\* fallback page with the message "Deployment completed".
C4_EmptyProjectDeploymentCompleted ==
    (pc = "done" /\ EmptyProject(fs0)) =>
        /\ index_path \in DOMAIN fs
        /\ fs[index_path] = html_content(<<"Deployment completed">>)

\* C4 as amended: for an empty project directory the staged index.html is the
\* fallback page with the message "Project built but no output found".
C4_EmptyProjectNoOutputFound ==
    (pc = "done" /\ EmptyProject(fs0)) =>
        /\ index_path \in DOMAIN fs
        /\ fs[index_path] = html_content(<<"Project built but no output found">>)

\* an empty project staged over a deploy directory that held stale files
C4_Witness ==
    /\ pc = "done" /\ EmptyProject(fs0)
    /\ In(deploy_path, "old.html") \in DOMAIN fs0

\* C5: locate returns the first candidate, in the fixed order, that exists, is
\* a directory and has an entry; it returns absent exactly when there is none.
C5_LocateFirstMatch ==
    pc = "stage" =>
        /\ build_output = FirstMatch(fsLocate)
        /\ build_output = None <=> \A i \in 1..Len(LocatorOrder) : ~Matching(fsLocate, i)
        /\ \A i \in 1..Len(LocatorOrder) :
              build_output = join(project_path, LocatorOrder[i]) =>
                  /\ Matching(fsLocate, i)
                  /\ \A j \in 1..(i - 1) : ~Matching(fsLocate, j)

\* public is returned past an empty dist, a build that is a file and an empty
\* .next/out, with a non-empty _site after it
C5_Witness ==
    /\ pc = "stage"
    /\ build_output = In(project_path, "public")
    /\ isdir(fsLocate, In(project_path, "dist"))
    /\ isfile(fsLocate, In(project_path, "build"))
    /\ isdir(fsLocate, join(project_path, <<".next", "out">>))
    /\ Matching(fsLocate, 7)

\* C6: after a completed run deployTarget holds nothing that was there before
\* the run and was not written by the run.
C6_NoStaleContent ==
    pc = "done" =>
        \A q \in Under(fs, deploy_path) \ {deploy_path} :
            q \in DOMAIN fs0 => q \in written

\* the contents of directory src when the artifact was located, the deploy
\* directory itself left out
SourceContents(src) ==
    LET keep == Under(fsLocate, src) \ ({src} \cup Under(fsLocate, deploy_path))
    IN  [s \in {Suffix(src, q) : q \in keep} |-> fsLocate[join(src, s)]]

\* deployTarget holds exactly the contents of src, and a synthesized
\* index.html on top only when src has none
HoldsCopyOf(src) ==
    LET S == SourceContents(src)
        D == Contents(fs, deploy_path)
    IN  IF <<"index.html">> \in DOMAIN S
        THEN D = S
        ELSE /\ DOMAIN D = DOMAIN S \cup {<<"index.html">>}
             /\ \A s \in DOMAIN S : D[s] = S[s]
             /\ D[<<"index.html">>] = html_content(<<"Deployment completed">>)

CommandOrder == <<"which npm", "npm install", "npm run build">>

AfterBuild == pc \in {"locate", "stage", "ensure", "done", "crashed"}

\* C8: the commands of a run are a prefix of (which npm, npm install, npm run
\* build), each after the success of the one before; there is none exactly for
\* the types static and unknown; none is issued once staging has begun.
C8_CommandSequence ==
    /\ [](/\ Len(cmds) <= Len(CommandOrder)
          /\ \A i \in 1..Len(cmds) : cmds[i].cmd = CommandOrder[i]
          /\ \A i \in 2..Len(cmds) : cmds[i - 1].ok
          /\ project_type \in {"static", "unknown"} => cmds = <<>>
          /\ AfterBuild => (cmds = <<>> <=> project_type \in {"static", "unknown"}))
    /\ [][/\ Len(cmds') >= Len(cmds)
          /\ SubSeq(cmds', 1, Len(cmds)) = cmds
          /\ pc \in {"stage", "ensure", "done", "crashed", "exited"} => cmds' = cmds]_vars

\* all three commands were issued and the run was staged
C8_Witness ==
    pc = "done" /\ Len(cmds) = 3

\* the message the fallback page is to carry, from what the commands returned
ExpectedMessage ==
    IF Buildable(project_type) /\ Len(cmds) >= 1 /\ ~cmds[1].ok
    THEN <<"Build failed: ", "npm not available">>
    ELSE IF Buildable(project_type) /\ Len(cmds) >= 2 /\ ~cmds[2].ok
    THEN <<"Build failed: ", "npm install failed: ", cmds[2].stderr>>
    ELSE <<"Project built but no output found">>

\* C9: with no artifact directory and no index.html in the project root, the
\* fallback page says "Build failed: ..." exactly when npm is unavailable or
\* npm install failed, and "Project built but no output found" otherwise.
C9_FallbackMessage ==
    (pc = "done" /\ FirstMatch(fsLocate) = None
        /\ In(project_path, "index.html") \notin DOMAIN fsLocate) =>
        /\ index_path \in DOMAIN fs
        /\ fs[index_path] = html_content(ExpectedMessage)

\* npm run build failed and the page says the project was built
C9_Witness ==
    /\ pc = "done" /\ branch = "fallback"
    /\ Len(cmds) = 3 /\ ~cmds[3].ok
    /\ fs[index_path] = html_content(<<"Project built but no output found">>)

\* C10: locating and staging never delete or modify anything under
\* projectRoot, wherever deployTarget lies.
C10_ProjectRootUntouched ==
    pc \in {"ensure", "done", "crashed"} =>
        \A q \in Under(fsLocate, project_path) :
            q \in DOMAIN fs /\ fs[q] = fsLocate[q]

====
